---- MODULE Spec2Model ----
(***************************************************************************)
(* A model of curlclone: the cookie store (cookies.py), the request engine *)
(* make_request (http_client.py) and the command line entry (cli.py).      *)
(*                                                                         *)
(* Text (str) and header bytes are sequences of one-character strings, so  *)
(* that split, strip, lower, startswith and endswith are computed and not  *)
(* assumed.  A Python dict is a sequence of <<key, value>> pairs in        *)
(* insertion order.  Message bodies are opaque byte strings; zlib is       *)
(* modelled by a table over them.                                          *)
(***************************************************************************)
EXTENDS Integers, Sequences, FiniteSets, TLC

VARIABLES
    pc,             \* position of the single control flow
    caller,         \* "cli" (main) or "api" (direct make_request call)
    cookie_jar,     \* cookies.cookie_jar: dict domain -> dict name -> value
    cookie_file,    \* contents of COOKIE_FILE: NoFile or a sequence of lines
    method, data, allow_redirects, max_redirects,   \* make_request arguments
    orig_method, orig_data,                         \* method and data as the caller passed them
    current_url, redirect_count,                    \* make_request locals
    scheme, host, port, path,                       \* result of parse_url
    status_code,                                    \* make_request local, 0 before the first response
    request_headers,                                \* make_request argument
    open_socks,     \* number of connections opened by make_request and not closed
    hops,           \* number of create_connection calls of the current call
    last_request,   \* the request put on the wire on the current hop
    response_bytes, \* the bytes received on the current hop
    result,         \* what make_request returned, or the exception it raised
    exit_status     \* process exit status of the cli

vars == <<pc, caller, cookie_jar, cookie_file, method, data, allow_redirects,
          max_redirects, orig_method, orig_data, current_url, redirect_count,
          scheme, host, port, path, status_code,
          request_headers, open_socks, hops, last_request, response_bytes,
          result, exit_status>>

\* None where a str is expected, and the cookie file that does not exist
None == <<"None">>
NoFile == <<<<"NoFile">>>>

\* ------------------------------------------------------------------------
\* str methods
\* ------------------------------------------------------------------------
UpperChars == <<"A","B","C","D","E","F","G","H","I","J","K","L","M",
                "N","O","P","Q","R","S","T","U","V","W","X","Y","Z">>
LowerChars == <<"a","b","c","d","e","f","g","h","i","j","k","l","m",
                "n","o","p","q","r","s","t","u","v","w","x","y","z">>
Digits == <<"0","1","2","3","4","5","6","7","8","9">>

LowerChar(c) ==
    IF \E i \in 1..26 : UpperChars[i] = c
    THEN LowerChars[CHOOSE i \in 1..26 : UpperChars[i] = c]
    ELSE c

\* str.lower
Lower(s) == [i \in 1..Len(s) |-> LowerChar(s[i])]

IsSpace(c) == c \in {" ", "\t", "\n", "\r"}

\* str.strip
RECURSIVE LStrip(_)
LStrip(s) == IF s # <<>> /\ IsSpace(Head(s)) THEN LStrip(Tail(s)) ELSE s
RECURSIVE RStrip(_)
RStrip(s) ==
    IF s # <<>> /\ IsSpace(s[Len(s)]) THEN RStrip(SubSeq(s, 1, Len(s) - 1)) ELSE s
Strip(s) == RStrip(LStrip(s))

\* str.startswith, str.endswith
StartsWith(s, p) == Len(p) <= Len(s) /\ SubSeq(s, 1, Len(p)) = p
EndsWith(s, p) == Len(p) <= Len(s) /\ SubSeq(s, Len(s) - Len(p) + 1, Len(s)) = p

\* str.find for a one-character needle, 0 when absent (1-based otherwise)
Find(s, c) ==
    IF \E i \in 1..Len(s) : s[i] = c
    THEN CHOOSE i \in 1..Len(s) : s[i] = c /\ \A j \in 1..(i - 1) : s[j] # c
    ELSE 0

\* sub in s
Includes(s, sub) ==
    \E i \in 0..(Len(s) - Len(sub)) : SubSeq(s, i + 1, i + Len(sub)) = sub

\* str.split(c): every piece
RECURSIVE Split(_, _)
Split(s, c) ==
    IF Find(s, c) = 0 THEN <<s>>
    ELSE <<SubSeq(s, 1, Find(s, c) - 1)>> \o Split(SubSeq(s, Find(s, c) + 1, Len(s)), c)

\* str.split(c, n): at most n splits
RECURSIVE SplitMax(_, _, _)
SplitMax(s, c, n) ==
    IF n = 0 \/ Find(s, c) = 0 THEN <<s>>
    ELSE <<SubSeq(s, 1, Find(s, c) - 1)>>
         \o SplitMax(SubSeq(s, Find(s, c) + 1, Len(s)), c, n - 1)

\* length of the longest prefix of t without white space
WordLen(t) ==
    IF \E i \in 1..Len(t) : IsSpace(t[i])
    THEN (CHOOSE i \in 1..Len(t) : IsSpace(t[i]) /\ \A j \in 1..(i - 1) : ~IsSpace(t[j])) - 1
    ELSE Len(t)

\* str.split(): pieces between runs of white space
RECURSIVE SplitWS(_)
RECURSIVE SplitWords(_)
SplitWords(t) ==
    IF t = <<>> THEN <<>>
    ELSE <<SubSeq(t, 1, WordLen(t))>> \o SplitWS(SubSeq(t, WordLen(t) + 1, Len(t)))
SplitWS(s) == SplitWords(LStrip(s))

\* sep.join(parts)
RECURSIVE Join(_, _)
Join(sep, parts) ==
    IF parts = <<>> THEN <<>>
    ELSE IF Len(parts) = 1 THEN parts[1]
    ELSE parts[1] \o sep \o Join(sep, Tail(parts))

IsDigits(s) == s # <<>> /\ \A i \in 1..Len(s) : \E d \in 1..10 : Digits[d] = s[i]
DigitVal(c) == (CHOOSE d \in 1..10 : Digits[d] = c) - 1

\* int(s) of a string of decimal digits; -1 stands for ValueError
RECURSIVE ParseInt(_)
ParseInt(s) ==
    IF ~IsDigits(s) THEN -1
    ELSE IF Len(s) = 1 THEN DigitVal(s[1])
    ELSE 10 * ParseInt(SubSeq(s, 1, Len(s) - 1)) + DigitVal(s[Len(s)])

\* ------------------------------------------------------------------------
\* dict
\* ------------------------------------------------------------------------
DictHas(d, k) == \E i \in 1..Len(d) : d[i][1] = k
DictGet(d, k) == d[CHOOSE i \in 1..Len(d) : d[i][1] = k][2]
\* d[k] = v: an existing key keeps its position
DictSet(d, k, v) ==
    IF DictHas(d, k)
    THEN [i \in 1..Len(d) |-> IF d[i][1] = k THEN <<k, v>> ELSE d[i]]
    ELSE Append(d, <<k, v>>)
\* d.update(e)
RECURSIVE DictUpdate(_, _)
DictUpdate(d, e) ==
    IF e = <<>> THEN d
    ELSE DictUpdate(DictSet(d, Head(e)[1], Head(e)[2]), Tail(e))

\* ------------------------------------------------------------------------
\* cookies.py
\* ------------------------------------------------------------------------
FileHeader1 == <<"#"," ","B","a","s","i","c"," ","C","u","r","l"," ","C","l","o","n","e"," ","C","o","o","k","i","e","s">>
FileHeader2 == <<"#"," ","F","o","r","m","a","t",":"," ","D","o","m","a","i","n","\t","N","a","m","e","\t","V","a","l","u","e">>

\* cookie_jar[domain][name] = value, creating the domain's dict when missing
JarSet(jar, domain, name, value) ==
    DictSet(jar, domain,
            DictSet(IF DictHas(jar, domain) THEN DictGet(jar, domain) ELSE <<>>,
                    name, value))

\* the try statement of the loop body: line.split('\t', 2) unpacked into three
LoadFields(jar, fields) ==
    IF Len(fields) = 3 THEN JarSet(jar, fields[1], fields[2], fields[3]) ELSE jar

LoadStripped(jar, line) ==
    IF line = <<>> \/ StartsWith(line, <<"#">>) THEN jar
    ELSE LoadFields(jar, SplitMax(line, "\t", 2))

\* the loop body of load_cookies_from_file for one line of the file
LoadLine(jar, raw) == LoadStripped(jar, Strip(raw))

RECURSIVE LoadLines(_, _)
LoadLines(jar, lines) ==
    IF lines = <<>> THEN jar ELSE LoadLines(LoadLine(jar, Head(lines)), Tail(lines))

\* the jar load_cookies_from_file leaves behind for a given file
load_cookies_from_file(file) ==
    IF file = NoFile THEN <<>> ELSE LoadLines(<<>>, file)

\* the lines written for one domain of the jar
NameLines(domain, names) ==
    [i \in 1..Len(names) |-> domain \o <<"\t">> \o names[i][1] \o <<"\t">> \o names[i][2]]

RECURSIVE JarLines(_)
JarLines(jar) ==
    IF jar = <<>> THEN <<>>
    ELSE NameLines(Head(jar)[1], Head(jar)[2]) \o JarLines(Tail(jar))

\* the file save_cookies_to_file writes for a given jar
save_cookies_to_file(jar) == <<FileHeader1, FileHeader2>> \o JarLines(jar)

\* the dict cookies_to_send built by the loop of get_cookies_for_url
RECURSIVE CookiesToSend(_, _, _)
CookiesToSend(acc, jar, h) ==
    IF jar = <<>> THEN acc
    ELSE CookiesToSend(IF EndsWith(h, Head(jar)[1]) THEN DictUpdate(acc, Head(jar)[2]) ELSE acc,
                       Tail(jar), h)

\* '; '.join of name=value over cookies_to_send
CookieString(cookies_to_send) ==
    Join(<<";", " ">>,
         [i \in 1..Len(cookies_to_send) |->
             cookies_to_send[i][1] \o <<"=">> \o cookies_to_send[i][2]])

get_cookies_for_url(jar, h, p) == CookieString(CookiesToSend(<<>>, jar, h))

DomainAttr == <<"d","o","m","a","i","n","=">>

\* the value of a Domain attribute, one leading dot removed
DomainValue(d) == IF StartsWith(d, <<".">>) THEN Tail(d) ELSE d

\* the domain after one attribute (already stripped) of the attribute loop
AttrDomain(domain, part) ==
    IF StartsWith(Lower(part), DomainAttr)
    THEN DomainValue(Strip(SplitMax(part, "=", 1)[2]))
    ELSE domain

\* the domain chosen by the attribute loop of store_cookies
RECURSIVE CookieDomain(_, _)
CookieDomain(domain, parts) ==
    IF parts = <<>> THEN domain
    ELSE CookieDomain(AttrDomain(domain, Strip(Head(parts))), Tail(parts))

\* store_cookies for one value, given its ';' parts and its first pair
StorePair(jar, parts, name_value, default_domain) ==
    IF Find(name_value, "=") = 0 THEN jar
    ELSE JarSet(jar, CookieDomain(default_domain, Tail(parts)),
                Strip(SplitMax(name_value, "=", 1)[1]),
                Strip(SplitMax(name_value, "=", 1)[2]))

StoreParts(jar, parts, default_domain) ==
    StorePair(jar, parts, Strip(parts[1]), default_domain)

\* the loop body of store_cookies for one Set-Cookie value
StoreOne(jar, header_value, default_domain) ==
    StoreParts(jar, Split(header_value, ";"), default_domain)

RECURSIVE StoreAll(_, _, _)
StoreAll(jar, values, default_domain) ==
    IF values = <<>> THEN jar
    ELSE StoreAll(StoreOne(jar, Head(values), default_domain), Tail(values), default_domain)

\* set_cookie_headers is [islist |-> BOOLEAN, val |-> a str or a list of str];
\* the value is the jar after the call (the file is then save_cookies_to_file of it)
store_cookies(jar, set_cookie_headers, default_domain) ==
    StoreAll(jar,
             IF set_cookie_headers.islist THEN set_cookie_headers.val
             ELSE <<set_cookie_headers.val>>,
             default_domain)

\* ------------------------------------------------------------------------
\* urllib.parse, for URLs without user info, brackets, ';', '#', '.' or '..'
\* ------------------------------------------------------------------------
Http == <<"h","t","t","p">>
Https == <<"h","t","t","p","s">>

IsAlpha(c) == \E i \in 1..26 : UpperChars[i] = c \/ LowerChars[i] = c
IsSchemeChar(c) == IsAlpha(c) \/ (\E d \in 1..10 : Digits[d] = c) \/ c \in {"+", "-", "."}

\* index of the first of '/', '?' in s at or after position from, else Len(s) + 1
NetlocEnd(s, from) ==
    IF \E i \in from..Len(s) : s[i] \in {"/", "?"}
    THEN CHOOSE i \in from..Len(s) : s[i] \in {"/", "?"} /\ \A j \in from..(i - 1) : s[j] \notin {"/", "?"}
    ELSE Len(s) + 1

\* index of the ':' that ends the scheme of url, 0 when url has no scheme
SchemeEnd(url) ==
    IF Find(url, ":") > 1 /\ IsAlpha(url[1])
       /\ \A j \in 1..(Find(url, ":") - 1) : IsSchemeChar(url[j])
    THEN Find(url, ":") ELSE 0

\* urlparse, last step: path and query of what follows the netloc
UrlSplitQuery(sch, netloc, rest) ==
    [scheme |-> sch, netloc |-> netloc,
     path |-> IF Find(rest, "?") = 0 THEN rest ELSE SubSeq(rest, 1, Find(rest, "?") - 1),
     query |-> IF Find(rest, "?") = 0 THEN <<>> ELSE SubSeq(rest, Find(rest, "?") + 1, Len(rest))]

\* urlparse, second step: the netloc of what follows the scheme
UrlSplitNetloc(sch, rest) ==
    IF StartsWith(rest, <<"/", "/">>)
    THEN UrlSplitQuery(sch, SubSeq(rest, 3, NetlocEnd(rest, 3) - 1),
                       SubSeq(rest, NetlocEnd(rest, 3), Len(rest)))
    ELSE UrlSplitQuery(sch, <<>>, rest)

\* urlparse(url, scheme=default): [scheme, netloc, path, query]
urlparse(url, default) ==
    IF SchemeEnd(url) > 0
    THEN UrlSplitNetloc(Lower(SubSeq(url, 1, SchemeEnd(url) - 1)),
                        SubSeq(url, SchemeEnd(url) + 1, Len(url)))
    ELSE UrlSplitNetloc(default, url)

\* int(port) with the range check of ParseResult.port
PortValue(p) == IF ParseInt(p) < 0 \/ ParseInt(p) > 65535 THEN -1 ELSE ParseInt(p)

\* ParseResult.port: 0 for None, -1 for ValueError
urlport(netloc) ==
    IF Find(netloc, ":") = 0 \/ Find(netloc, ":") = Len(netloc) THEN 0
    ELSE PortValue(SubSeq(netloc, Find(netloc, ":") + 1, Len(netloc)))

\* urlunparse, after the netloc has been put in front of the path
UrlUnsplit(sch, u, query) ==
    (IF sch # <<>> THEN sch \o <<":">> ELSE <<>>) \o u
    \o (IF query # <<>> THEN <<"?">> \o query ELSE <<>>)

urlunparse(sch, netloc, pth, query) ==
    IF netloc # <<>> \/ (sch \in {Http, Https} /\ ~StartsWith(pth, <<"/", "/">>))
    THEN UrlUnsplit(sch, <<"/", "/">> \o netloc
                         \o (IF pth # <<>> /\ pth[1] # "/" THEN <<"/">> ELSE <<>>) \o pth,
                    query)
    ELSE UrlUnsplit(sch, pth, query)

UsesRelative == {<<>>, Http, Https}

\* index of the last '/' of s, 0 when there is none
LastSlash(s) ==
    IF \E i \in 1..Len(s) : s[i] = "/"
    THEN CHOOSE i \in 1..Len(s) : s[i] = "/" /\ \A j \in (i + 1)..Len(s) : s[j] # "/"
    ELSE 0

\* the path of a reference resolved against the base path
MergePath(bpath, upath) ==
    IF StartsWith(upath, <<"/">>) THEN upath
    ELSE IF SubSeq(bpath, 1, LastSlash(bpath)) \o upath = <<>> THEN <<"/">>
    ELSE SubSeq(bpath, 1, LastSlash(bpath)) \o upath

\* urljoin for the parsed base b and the parsed reference u
UrlJoinParsed(base, url, b, u) ==
    IF base = <<>> THEN url
    ELSE IF url = <<>> THEN base
    ELSE IF u.scheme # b.scheme \/ u.scheme \notin UsesRelative THEN url
    ELSE IF u.netloc # <<>> THEN urlunparse(u.scheme, u.netloc, u.path, u.query)
    ELSE IF u.path = <<>>
         THEN urlunparse(u.scheme, b.netloc, b.path, IF u.query = <<>> THEN b.query ELSE u.query)
    ELSE urlunparse(u.scheme, b.netloc, MergePath(b.path, u.path), u.query)

UrlJoinBase(base, url, b) == UrlJoinParsed(base, url, b, urlparse(url, b.scheme))

urljoin(base, url) == UrlJoinBase(base, url, urlparse(base, <<>>))

\* ------------------------------------------------------------------------
\* http_client.py
\* ------------------------------------------------------------------------
\* parse_url for the parsed URL, its scheme after defaulting and its port
ParseUrlParts(parsed, sch, prt) ==
    [scheme |-> sch,
     host |-> IF Find(parsed.netloc, ":") # 0
              THEN SplitMax(parsed.netloc, ":", 1)[1] ELSE parsed.netloc,
     port |-> IF prt = -1 THEN -1
              ELSE IF prt # 0 THEN prt
              ELSE IF sch = Https THEN 443 ELSE 80,
     path |-> (IF parsed.path # <<>> THEN parsed.path ELSE <<"/">>)
              \o (IF parsed.query # <<>> THEN <<"?">> \o parsed.query ELSE <<>>)]

ParseUrlParsed(parsed) ==
    ParseUrlParts(parsed, IF parsed.scheme # <<>> THEN parsed.scheme ELSE Http,
                  urlport(parsed.netloc))

\* parse_url: port -1 stands for the ValueError of ParseResult.port
parse_url(url) == ParseUrlParsed(urlparse(url, <<>>))

\* the header loop of parse_headers over lines[1:]; ok = FALSE is the
\* ValueError of unpacking line.split(':', 1) for a line without ':'
RECURSIVE HeaderLoop(_, _)
HeaderLoop(headers, lines) ==
    IF lines = <<>> THEN [ok |-> TRUE, headers |-> headers]
    ELSE IF Head(lines) = <<>> THEN HeaderLoop(headers, Tail(lines))
    ELSE IF Find(Head(lines), ":") = 0 THEN [ok |-> FALSE, headers |-> headers]
    ELSE LET kv == SplitMax(Head(lines), ":", 1)
         IN  HeaderLoop(DictSet(headers, Lower(Strip(kv[1])), Strip(kv[2])), Tail(lines))

ParsedHeaders(status_line, r) ==
    [ok |-> r.ok, status_line |-> status_line, headers |-> r.headers]

\* header_block is the list of its CRLF-separated lines
parse_headers(header_block) ==
    ParsedHeaders(Head(header_block), HeaderLoop(<<>>, Tail(header_block)))

\* str(n) for 0 <= n < 100
IntToStr(n) ==
    IF n < 10 THEN <<Digits[n + 1]>> ELSE <<Digits[(n \div 10) + 1], Digits[(n % 10) + 1]>>

Truthy(s) == s # None /\ s # <<>>

ReqHttp11 == <<" ","H","T","T","P","/","1",".","1">>
HostHdr == <<"H","o","s","t",":"," ">>
UserAgentLine == <<"U","s","e","r","-","A","g","e","n","t",":"," ","b","a","s","i","c","-","c","u","r","l","-","c","l","o","n","e","-","s","o","c","k","e","t","/","0",".","1">>
AcceptLine == <<"A","c","c","e","p","t",":"," ","*","/","*">>
AcceptEncodingLine == <<"A","c","c","e","p","t","-","E","n","c","o","d","i","n","g",":"," ","g","z","i","p",","," ","d","e","f","l","a","t","e">>
ConnectionLine == <<"C","o","n","n","e","c","t","i","o","n",":"," ","c","l","o","s","e">>
CookieHdr == <<"C","o","o","k","i","e",":"," ">>
ContentTypeLine == <<"C","o","n","t","e","n","t","-","T","y","p","e",":"," ","a","p","p","l","i","c","a","t","i","o","n","/","x","-","w","w","w","-","f","o","r","m","-","u","r","l","e","n","c","o","d","e","d">>
ContentLengthHdr == <<"C","o","n","t","e","n","t","-","L","e","n","g","t","h",":"," ">>
GET == <<"G","E","T">>
POST == <<"P","O","S","T">>

\* characters that str.encode('utf-8') turns into two bytes
TwoByteChars == {"U+00E9"}
Utf8Bytes(c) == IF c = "U+00E9" THEN <<"0xC3", "0xA9">> ELSE <<c>>

\* data.encode('utf-8'): one byte for an ASCII character, two for U+00E9
RECURSIVE Utf8Encode(_)
Utf8Encode(d) ==
    IF d = <<>> THEN <<>> ELSE Utf8Bytes(Head(d)) \o Utf8Encode(Tail(d))

\* the request lines, given whether the body is attached and its length line
RequestLines(m, h, p, req_headers, cookie_header, with_body, content_length) ==
    <<m \o <<" ">> \o p \o ReqHttp11, HostHdr \o h, UserAgentLine,
      AcceptLine, AcceptEncodingLine, ConnectionLine>>
    \o (IF cookie_header # <<>> THEN <<CookieHdr \o cookie_header>> ELSE <<>>)
    \o (IF req_headers # <<>> THEN <<req_headers>> ELSE <<>>)
    \o (IF with_body THEN <<ContentTypeLine, ContentLengthHdr \o content_length>> ELSE <<>>)
    \o << <<>>, <<>> >>

\* _build_request_lines with Content-Length counting characters, not bytes
_build_request_lines_CountsChars(m, h, p, d, req_headers, cookie_header) ==
    IF m = POST /\ Truthy(d)
    THEN [lines |-> RequestLines(m, h, p, req_headers, cookie_header, TRUE,
                                 IntToStr(Len(d))),
          body |-> Utf8Encode(d)]
    ELSE [lines |-> RequestLines(m, h, p, req_headers, cookie_header, FALSE, <<>>),
          body |-> <<>>]

\* _build_request_lines: the lines and the body bytes
_build_request_lines(m, h, p, d, req_headers, cookie_header) ==
    IF m = POST /\ Truthy(d)
    THEN [lines |-> RequestLines(m, h, p, req_headers, cookie_header, TRUE,
                                 IntToStr(Len(Utf8Encode(d)))),
          body |-> Utf8Encode(d)]
    ELSE [lines |-> RequestLines(m, h, p, req_headers, cookie_header, FALSE, <<>>),
          body |-> <<>>]

ParsedResponse(ph, body_part) ==
    [ok |-> ph.ok, status_line |-> ph.status_line, headers |-> ph.headers,
     body_part |-> body_part]

\* response bytes are [sep |-> whether CRLFCRLF occurs, head |-> the
\* CRLF-separated lines before it, body |-> the bytes after it];
\* ok = FALSE is the ValueError of unpacking the split, or of parse_headers
_parse_response(resp) ==
    IF ~resp.sep
    THEN [ok |-> FALSE, status_line |-> <<>>, headers |-> <<>>, body_part |-> resp.body]
    ELSE ParsedResponse(parse_headers(resp.head), resp.body)

\* zlib.decompress over the message bodies of the model
ZlibError == "zlib.error"
GzipDecompress(b) == IF b = "gzip(hello)" THEN "hello" ELSE ZlibError
ZlibDecompress(b) == IF b = "zlib(hello)" THEN "hello" ELSE ZlibError
RawDecompress(b) == IF b = "deflate(hello)" THEN "hello" ELSE ZlibError

ContentEncoding == <<"c","o","n","t","e","n","t","-","e","n","c","o","d","i","n","g">>
Gzip == <<"g","z","i","p">>
Deflate == <<"d","e","f","l","a","t","e">>
\* headers.get(k)
HeaderGet(headers, k) == IF DictHas(headers, k) THEN DictGet(headers, k) ELSE None

\* _handle_compression that lets a failed decompression replace the body
_handle_compression_LosesBody(headers, body_part) ==
    IF HeaderGet(headers, ContentEncoding) = Gzip THEN GzipDecompress(body_part)
    ELSE IF HeaderGet(headers, ContentEncoding) = Deflate
    THEN IF ZlibDecompress(body_part) # ZlibError THEN ZlibDecompress(body_part)
         ELSE RawDecompress(body_part)
    ELSE body_part

_handle_compression(headers, body_part) ==
    IF HeaderGet(headers, ContentEncoding) = Gzip
    THEN IF GzipDecompress(body_part) # ZlibError THEN GzipDecompress(body_part) ELSE body_part
    ELSE IF HeaderGet(headers, ContentEncoding) = Deflate
    THEN IF ZlibDecompress(body_part) # ZlibError THEN ZlibDecompress(body_part)
         ELSE IF RawDecompress(body_part) # ZlibError THEN RawDecompress(body_part)
         ELSE body_part
    ELSE body_part

LocationKey == <<"l","o","c","a","t","i","o","n">>

\* the return values of _handle_redirect
Redirect(new_url, m, d) == [new_url |-> new_url, method |-> m, data |-> d]

\* _handle_redirect that forgets 302 in the downgrade to GET
_handle_redirect_Keeps302(code, headers, cur, m, d) ==
    IF Truthy(HeaderGet(headers, LocationKey))
    THEN IF code = 303 \/ (code = 301 /\ m = POST)
         THEN Redirect(urljoin(cur, HeaderGet(headers, LocationKey)), GET, None)
         ELSE Redirect(urljoin(cur, HeaderGet(headers, LocationKey)), m, d)
    ELSE Redirect(None, m, d)

\* _handle_redirect that requests the current URL again when Location is missing
_handle_redirect_RetriesWithoutLocation(code, headers, cur, m, d) ==
    IF Truthy(HeaderGet(headers, LocationKey))
    THEN IF code = 303 \/ (code \in {301, 302} /\ m = POST)
         THEN Redirect(urljoin(cur, HeaderGet(headers, LocationKey)), GET, None)
         ELSE Redirect(urljoin(cur, HeaderGet(headers, LocationKey)), m, d)
    ELSE Redirect(cur, m, d)

\* _handle_redirect that empties the data instead of discarding it
_handle_redirect_EmptiesData(code, headers, cur, m, d) ==
    IF Truthy(HeaderGet(headers, LocationKey))
    THEN IF code = 303 \/ (code \in {301, 302} /\ m = POST)
         THEN Redirect(urljoin(cur, HeaderGet(headers, LocationKey)), GET, <<>>)
         ELSE Redirect(urljoin(cur, HeaderGet(headers, LocationKey)), m, d)
    ELSE Redirect(None, m, d)

\* _handle_redirect: (new_url, method, data)
_handle_redirect(code, headers, cur, m, d) ==
    IF Truthy(HeaderGet(headers, LocationKey))
    THEN IF code = 303 \/ (code \in {301, 302} /\ m = POST)
         THEN Redirect(urljoin(cur, HeaderGet(headers, LocationKey)), GET, None)
         ELSE Redirect(urljoin(cur, HeaderGet(headers, LocationKey)), m, d)
    ELSE Redirect(None, m, d)

SecondWord(words) == IF Len(words) < 2 THEN -1 ELSE ParseInt(words[2])

\* int(status_line.split()[1]); -1 stands for IndexError and ValueError
StatusCode(status_line) == SecondWord(SplitWS(status_line))

\* ------------------------------------------------------------------------
\* Inputs: arguments, cookie files and server responses
\* ------------------------------------------------------------------------
MaxRedirectsBound == 1
DefaultMaxRedirects == 5

HostA == <<"a",".","i","o">>
HostB == <<"b",".","a",".","i","o">>
UrlA == Http \o <<":","/","/">> \o HostA \o <<"/","x">>
UrlB == Https \o <<":","/","/">> \o HostB \o <<"/">>
UrlNoScheme == HostA \o <<"/","x">>
UrlInputs == {UrlA, UrlB, UrlNoScheme}
MethodInputs == {GET, POST}
DataA1 == <<"a","=","1">>
DataUtf8 == <<"k","=","U+00E9">>
DataInputs == {None, DataA1, DataUtf8}
HeaderInputs == {<<>>}
\* command lines: -X, url, -d, -L / --no-location
CliInputs == {<<GET, UrlA, None, FALSE>>, <<POST, UrlA, DataA1, TRUE>>,
              <<GET, UrlB, DataA1, FALSE>>, <<POST, UrlNoScheme, None, FALSE>>}

CookieLineA == HostA \o <<"\t","a","\t","0">>
CookieLineIo == <<"i","o","\t","a","\t","9">>
InitFiles == {NoFile, <<FileHeader1, FileHeader2, CookieLineA, CookieLineIo>>}

RespHttp11 == <<"H","T","T","P","/","1",".","1"," ">>
StatusLineOf(code) == RespHttp11 \o code \o <<" ","X">>
Ok200 == StatusLineOf(<<"2","0","0">>)
Found302 == StatusLineOf(<<"3","0","2">>)
RedirectLines == {StatusLineOf(c) : c \in {<<"3","0","1">>, <<"3","0","2">>, <<"3","0","3">>,
                                          <<"3","0","7">>, <<"3","0","8">>}}
BadStatusLine == <<"B","A","D">>

LocationHdr == <<"L","o","c","a","t","i","o","n",":"," ">>
SetCookieHdr == <<"S","e","t","-","C","o","o","k","i","e",":"," ">>
ContentEncodingHdr == <<"C","o","n","t","e","n","t","-","E","n","c","o","d","i","n","g",":"," ">>
LocNew == LocationHdr \o <<"/","n","e","w">>
LocAbs == LocationHdr \o UrlB
LocBack == LocationHdr \o UrlA
LocNoHost == LocationHdr \o Https \o <<":","/","/","/","p">>
LocEmpty == LocationHdr
SetA1 == SetCookieHdr \o <<"a","=","1">>
SetB2 == SetCookieHdr \o <<"b","=","2">>
SetA2Dom == SetCookieHdr \o <<"a","=","2",";"," ","D","o","m","a","i","n","=",".">> \o HostA
GarbageLine == <<"g","a","r","b","a","g","e">>

EncodingBlocks == {<<ContentEncodingHdr \o Gzip>>, <<ContentEncodingHdr \o Deflate>>,
                   <<ContentEncodingHdr \o <<"b","r">> >>}
Bodies == {"hello", "gzip(hello)", "zlib(hello)", "deflate(hello)", "corrupt"}

\* the header blocks (first line: the status line) the server may answer with
HeadInputs ==
    {<<sl>> \o hb : sl \in RedirectLines, hb \in {<<>>, <<LocNew>>}}
    \cup {<<Found302>> \o hb : hb \in {<<LocAbs>>, <<LocBack>>, <<LocNoHost>>, <<LocEmpty>>,
                                       <<SetA1, LocNew>>,
                                       <<SetA2Dom, LocAbs>>, <<GarbageLine, LocNew>>}}
    \cup {<<Ok200>> \o hb : hb \in {<<>>, <<SetA1, SetB2>>, <<GarbageLine>>}}
    \cup {<<BadStatusLine>>, <<BadStatusLine, SetB2>>}

Responses ==
    {[sep |-> TRUE, head |-> h, body |-> "hello"] : h \in HeadInputs}
    \cup {[sep |-> TRUE, head |-> <<Ok200>> \o eb, body |-> b] : eb \in EncodingBlocks, b \in Bodies}
    \cup {[sep |-> FALSE, head |-> <<Ok200>>, body |-> ""]}

NoResponse == [sep |-> FALSE, head |-> <<>>, body |-> "None"]
NoRequest == [lines |-> <<>>, body |-> <<>>]
NoResult == [kind |-> "none", error |-> "", status_line |-> None, headers |-> <<>>, body |-> "None"]
\* return None, None, None
Absent(why) == [kind |-> "returned", error |-> why, status_line |-> None, headers |-> <<>>, body |-> "None"]
Raised(exc) == [kind |-> "raised", error |-> exc, status_line |-> None, headers |-> <<>>, body |-> "None"]

\* ------------------------------------------------------------------------
\* The program
\* ------------------------------------------------------------------------
Init ==
    /\ pc = "idle"
    /\ caller = "none"
    /\ cookie_jar = <<>>
    /\ cookie_file \in InitFiles
    /\ method = None /\ data = None /\ allow_redirects = TRUE /\ max_redirects = 0
    /\ request_headers = <<>>
    /\ current_url = None /\ redirect_count = 0
    /\ orig_method = None /\ orig_data = None
    /\ scheme = None /\ host = None /\ port = 0 /\ path = None
    /\ status_code = 0
    /\ open_socks = 0 /\ hops = 0
    /\ last_request = NoRequest
    /\ response_bytes = NoResponse
    /\ result = NoResult
    /\ exit_status = -1

\* cli.main up to the call of make_request, and the entry of make_request
Main(m, u, d, location, h) ==
    /\ pc = "idle"
    /\ caller' = "cli"
    /\ cookie_jar' = load_cookies_from_file(cookie_file)
    /\ method' = m
    /\ data' = (IF m = GET /\ Truthy(d) THEN None ELSE d)
    /\ orig_method' = method' /\ orig_data' = data'
    /\ allow_redirects' = location
    /\ max_redirects' = DefaultMaxRedirects
    /\ request_headers' = h
    /\ current_url' = u
    /\ redirect_count' = 0
    /\ pc' = "while"
    /\ UNCHANGED <<cookie_file, scheme, host, port, path, status_code, open_socks, hops,
                   last_request, response_bytes, result, exit_status>>

\* a direct call of make_request
Call(m, u, d, allow, maxr, h) ==
    /\ pc = "idle"
    /\ caller' = "api"
    /\ method' = m
    /\ data' = d
    /\ orig_method' = m /\ orig_data' = d
    /\ allow_redirects' = allow
    /\ max_redirects' = maxr
    /\ request_headers' = h
    /\ current_url' = u
    /\ redirect_count' = 0
    /\ pc' = "while"
    /\ UNCHANGED <<cookie_jar, cookie_file, scheme, host, port, path, status_code,
                   open_socks, hops, last_request, response_bytes, result, exit_status>>

\* WhileTest with the loop test off by one
WhileTest_OffByOne ==
    /\ pc = "while"
    /\ IF redirect_count <= max_redirects + 1
       THEN pc' = "connect" /\ UNCHANGED result
       ELSE pc' = "returned" /\ result' = Absent("TooManyRedirects")
    /\ UNCHANGED <<caller, cookie_jar, cookie_file, method, data, allow_redirects,
                   max_redirects, orig_method, orig_data, request_headers, current_url,
                   redirect_count, scheme, host, port, path, status_code, open_socks,
                   hops, last_request, response_bytes, exit_status>>

\* WhileTest without the ceiling
WhileTest_NoCeiling ==
    /\ pc = "while"
    /\ pc' = "connect" /\ UNCHANGED result
    /\ UNCHANGED <<caller, cookie_jar, cookie_file, method, data, allow_redirects,
                   max_redirects, orig_method, orig_data, request_headers, current_url,
                   redirect_count, scheme, host, port, path, status_code, open_socks,
                   hops, last_request, response_bytes, exit_status>>

\* the test of the while loop, and the return after it
WhileTest ==
    /\ pc = "while"
    /\ IF redirect_count <= max_redirects
       THEN pc' = "connect" /\ UNCHANGED result
       ELSE pc' = "returned" /\ result' = Absent("TooManyRedirects")
    /\ UNCHANGED <<caller, cookie_jar, cookie_file, method, data, allow_redirects,
                   max_redirects, orig_method, orig_data, request_headers, current_url,
                   redirect_count, scheme, host, port, path, status_code, open_socks,
                   hops, last_request, response_bytes, exit_status>>

ConnectOutcomes == {"ok", "socket.timeout", "socket.gaierror", "ConnectionRefusedError"}

\* socket.create_connection for the parsed URL u
ConnectTo(outcome, u) ==
    /\ scheme' = u.scheme /\ host' = u.host /\ port' = u.port /\ path' = u.path
    /\ IF u.port = -1
       THEN pc' = "raised" /\ result' = Raised("ValueError") /\ UNCHANGED <<open_socks, hops>>
       ELSE /\ hops' = hops + 1
            /\ IF outcome = "ok"
               THEN /\ open_socks' = open_socks + 1
                    /\ pc' = IF u.scheme = Https THEN "tls" ELSE "try"
                    /\ UNCHANGED result
               ELSE /\ pc' = "raised" /\ result' = Raised(outcome)
                    /\ UNCHANGED open_socks
    /\ UNCHANGED <<caller, cookie_jar, cookie_file, method, data, allow_redirects,
                   max_redirects, orig_method, orig_data, request_headers, current_url,
                   redirect_count, status_code, last_request, response_bytes,
                   exit_status>>

\* parse_url and socket.create_connection, which are outside the try
\* statement: an exception of either leaves make_request; the outcome of
\* connecting is the network's choice, whatever the host
Connect(outcome) ==
    /\ pc = "connect"
    /\ ConnectTo(outcome, parse_url(current_url))

TlsOutcomes == {"ok", "context", "handshake"}

\* ssl.create_default_context and wrap_socket, outside the try statement:
\* a failed handshake closes the socket inside the ssl module, a failure to
\* create the context leaves it as it is
TlsWrap(outcome) ==
    /\ pc = "tls"
    /\ IF outcome = "ok" THEN pc' = "try" /\ UNCHANGED <<result, open_socks>>
       ELSE IF outcome = "handshake"
       THEN pc' = "raised" /\ result' = Raised("ssl.SSLError") /\ open_socks' = open_socks - 1
       ELSE pc' = "raised" /\ result' = Raised("OSError") /\ UNCHANGED open_socks
    /\ UNCHANGED <<caller, cookie_jar, cookie_file, method, data, allow_redirects,
                   max_redirects, orig_method, orig_data, request_headers, current_url,
                   redirect_count, scheme, host, port, path, status_code, hops,
                   last_request, response_bytes, exit_status>>

ExchangeFailures == {"socket.timeout", "ssl.SSLError", "Exception"}

\* Exchange that goes round the loop again after a failed send or receive
Exchange_RetriesOnFailure(failure, resp) ==
    /\ pc = "try"
    /\ last_request' = _build_request_lines(method, host, path, data, request_headers,
                                            get_cookies_for_url(cookie_jar, host, path))
    /\ IF failure = "none"
       THEN /\ response_bytes' = resp
            /\ pc' = "parse"
            /\ UNCHANGED <<result, open_socks>>
       ELSE /\ open_socks' = open_socks - 1
            /\ pc' = "while"
            /\ UNCHANGED <<result, response_bytes>>
    /\ UNCHANGED <<caller, cookie_jar, cookie_file, method, data, allow_redirects,
                   max_redirects, orig_method, orig_data, request_headers, current_url,
                   redirect_count, scheme, host, port, path, status_code, hops,
                   exit_status>>

\* steps 2 to 4 of the try statement: the request is built from the jar and
\* sent, and the response is read until the peer closes; a failure of sendall
\* or recv is caught by an except clause, which returns after the finally
\* clause has closed the socket
Exchange(failure, resp) ==
    /\ pc = "try"
    /\ last_request' = _build_request_lines(method, host, path, data, request_headers,
                                            get_cookies_for_url(cookie_jar, host, path))
    /\ IF failure = "none"
       THEN /\ response_bytes' = resp
            /\ pc' = "parse"
            /\ UNCHANGED <<result, open_socks>>
       ELSE /\ result' = Absent(failure)
            /\ open_socks' = open_socks - 1
            /\ pc' = "returned"
            /\ UNCHANGED response_bytes
    /\ UNCHANGED <<caller, cookie_jar, cookie_file, method, data, allow_redirects,
                   max_redirects, orig_method, orig_data, request_headers, current_url,
                   redirect_count, scheme, host, port, path, status_code, hops,
                   exit_status>>

SetCookieKey == <<"s","e","t","-","c","o","o","k","i","e">>
RedirectCodes == {301, 302, 303, 307, 308}

\* FinishHop that keeps the stored cookies in memory only
FinishHop_NoSave(r, jar, code, rd) ==
    /\ open_socks' = open_socks - 1
    /\ cookie_jar' = jar
    /\ cookie_file' = cookie_file
    /\ status_code' = IF code = -1 THEN status_code ELSE code
    /\ IF code = -1
       THEN /\ result' = Absent("Exception")
            /\ pc' = "returned"
            /\ UNCHANGED <<method, data, current_url, redirect_count, last_request,
                           response_bytes>>
       ELSE IF Truthy(rd.new_url)
       THEN /\ redirect_count' = redirect_count + 1
            /\ current_url' = rd.new_url
            /\ method' = rd.method
            /\ data' = rd.data
            /\ pc' = "while"
            /\ last_request' = NoRequest
            /\ response_bytes' = NoResponse
            /\ UNCHANGED result
       ELSE /\ result' = [kind |-> "returned", error |-> "", status_line |-> r.status_line,
                          headers |-> r.headers,
                          body |-> _handle_compression(r.headers, r.body_part)]
            /\ pc' = "returned"
            /\ UNCHANGED <<method, data, current_url, redirect_count, last_request,
                           response_bytes>>
    /\ UNCHANGED <<caller, allow_redirects, max_redirects, orig_method, orig_data,
                   request_headers, scheme, host, port, path, hops, exit_status>>

\* the end of the try statement for the parsed response r, the jar after the
\* cookie step, the status code (-1: an exception was raised by parsing or by
\* int) and the redirect decision rd (new_url is None when _handle_redirect
\* was not called or found no location); every path runs the finally clause,
\* which closes the socket.  A followed redirect leaves the hop: the request
\* and the response of the hop are not used again.
FinishHop(r, jar, code, rd) ==
    /\ open_socks' = open_socks - 1
    /\ cookie_jar' = jar
    /\ cookie_file' = IF r.ok /\ DictHas(r.headers, SetCookieKey)
                      THEN save_cookies_to_file(jar) ELSE cookie_file
    /\ status_code' = IF code = -1 THEN status_code ELSE code
    /\ IF code = -1
       THEN /\ result' = Absent("Exception")
            /\ pc' = "returned"
            /\ UNCHANGED <<method, data, current_url, redirect_count, last_request,
                           response_bytes>>
       ELSE IF Truthy(rd.new_url)
       THEN /\ redirect_count' = redirect_count + 1
            /\ current_url' = rd.new_url
            /\ method' = rd.method
            /\ data' = rd.data
            /\ pc' = "while"
            /\ last_request' = NoRequest
            /\ response_bytes' = NoResponse
            /\ UNCHANGED result
       ELSE /\ result' = [kind |-> "returned", error |-> "", status_line |-> r.status_line,
                          headers |-> r.headers,
                          body |-> _handle_compression(r.headers, r.body_part)]
            /\ pc' = "returned"
            /\ UNCHANGED <<method, data, current_url, redirect_count, last_request,
                           response_bytes>>
    /\ UNCHANGED <<caller, allow_redirects, max_redirects, orig_method, orig_data,
                   request_headers, scheme, host, port, path, hops, exit_status>>

\* RedirectStep that does not look at allow_redirects
RedirectStep_IgnoresAllow(r, jar, code) ==
    FinishHop(r, jar, code,
              IF code \in RedirectCodes
              THEN _handle_redirect(code, r.headers, current_url, method, data)
              ELSE Redirect(None, method, data))

\* the redirect step for the status code
RedirectStep(r, jar, code) ==
    FinishHop(r, jar, code,
              IF code \in RedirectCodes /\ allow_redirects
              THEN _handle_redirect(code, r.headers, current_url, method, data)
              ELSE Redirect(None, method, data))

\* the cookie step for the parsed response r
CookieStep(r) ==
    RedirectStep(r,
                 IF r.ok /\ DictHas(r.headers, SetCookieKey)
                 THEN store_cookies(cookie_jar,
                                    [islist |-> FALSE, val |-> DictGet(r.headers, SetCookieKey)],
                                    host)
                 ELSE cookie_jar,
                 IF r.ok THEN StatusCode(r.status_line) ELSE -1)

\* steps 5 on of the try statement: parse, store cookies, decompress, decide
\* on the redirect
Process ==
    /\ pc = "parse"
    /\ CookieStep(_parse_response(response_bytes))

\* cli.main after make_request: sys.exit(1) when the status line is absent;
\* an exception that left make_request ends the process with status 1 too
MainExit ==
    /\ pc \in {"returned", "raised"}
    /\ caller = "cli"
    /\ exit_status' = IF result.kind = "returned" /\ Truthy(result.status_line) THEN 0 ELSE 1
    /\ pc' = "exited"
    /\ UNCHANGED <<caller, cookie_jar, cookie_file, method, data, allow_redirects,
                   max_redirects, orig_method, orig_data, request_headers, current_url,
                   redirect_count, scheme, host, port, path, status_code, open_socks,
                   hops, last_request, response_bytes, result>>

Next ==
    \/ \E a \in CliInputs, h \in HeaderInputs : Main(a[1], a[2], a[3], a[4], h)
    \/ \E m \in MethodInputs, u \in UrlInputs, d \in DataInputs, a \in BOOLEAN,
          x \in 0..MaxRedirectsBound, h \in HeaderInputs :
          Call(m, u, d, a, x, h)
    \/ WhileTest
    \/ \E o \in ConnectOutcomes : Connect(o)
    \/ \E o \in TlsOutcomes : TlsWrap(o)
    \/ \E f \in ExchangeFailures : Exchange(f, NoResponse)
    \/ \E resp \in Responses : Exchange("none", resp)
    \/ Process
    \/ MainExit

Spec == Init /\ [][Next]_vars

\* make_request is sequential blocking code: whichever step is next is taken,
\* every connect, send and receive being assumed to finish (with a response
\* or with a failure).  Connect and Process are enabled exactly at their
\* positions, which they always leave, so their weak fairness is written on
\* the position: the control does not stay there for ever.
SpecLive ==
    /\ Init /\ [][Next]_vars
    /\ WF_vars(WhileTest)
    /\ WF_vars(\E o \in TlsOutcomes : TlsWrap(o))
    /\ WF_vars((\E f \in ExchangeFailures : Exchange(f, NoResponse))
               \/ (\E resp \in Responses : Exchange("none", resp)))
    /\ []<>(pc # "connect")
    /\ []<>(pc # "parse")

\* ------------------------------------------------------------------------
\* The cookie store on its own: a program that calls the functions of
\* cookies.py directly.  pc names the last call; the engine is never entered.
\* ------------------------------------------------------------------------
MaxFileLines == 2

TwoFieldLine == <<"x","\t","y">>
FourFieldLine == <<"d","\t","n","\t","v","\t","w">>
EmptyValueLine == HostA \o <<"\t","b","\t">>
LineInputs == {CookieLineA, CookieLineIo, <<>>, FileHeader1, TwoFieldLine, FourFieldLine,
               EmptyValueLine}
FileInputs ==
    {NoFile} \cup UNION {[1..n -> LineInputs] : n \in 0..MaxFileLines}

CookieA1 == <<"a","=","1">>
CookieAEmpty == <<"a","=">>
CookieB2Dom == <<"b","=","2",";"," ","D","o","m","a","i","n","=",".">> \o HostA
CookieNoEq == <<"n","o","e","q">>
SetCookieInputs == {CookieA1, CookieAEmpty, CookieB2Dom, CookieNoEq}
DomainInputs == {HostA, HostB}

engine_vars ==
    <<caller, method, data, allow_redirects, max_redirects, orig_method, orig_data,
      current_url, redirect_count, scheme, host, port, path, status_code,
      request_headers, open_socks, hops, last_request, response_bytes, result,
      exit_status>>

\* the engine before any call
EngineIdle ==
    /\ caller = "none"
    /\ method = None /\ data = None /\ allow_redirects = TRUE /\ max_redirects = 0
    /\ request_headers = <<>>
    /\ current_url = None /\ redirect_count = 0
    /\ orig_method = None /\ orig_data = None
    /\ scheme = None /\ host = None /\ port = 0 /\ path = None
    /\ status_code = 0
    /\ open_socks = 0 /\ hops = 0
    /\ last_request = NoRequest
    /\ response_bytes = NoResponse
    /\ result = NoResult
    /\ exit_status = -1

\* cookies.py after import, with any cookie file on disk
InitFile ==
    /\ pc = "cookies"
    /\ cookie_jar = <<>>
    /\ cookie_file \in FileInputs
    /\ EngineIdle

\* cookies.py after import, with no cookie file on disk
InitStore ==
    /\ pc = "cookies"
    /\ cookie_jar = <<>>
    /\ cookie_file = NoFile
    /\ EngineIdle

\* a call of load_cookies_from_file()
LoadCookies ==
    /\ cookie_jar' = load_cookies_from_file(cookie_file)
    /\ pc' = "loaded"
    /\ UNCHANGED cookie_file
    /\ UNCHANGED engine_vars

Saved == {"saved", "saved_again"}

\* SaveCookies that opens the file for appending
SaveCookies_Appends ==
    /\ cookie_file' = (IF cookie_file = NoFile THEN <<>> ELSE cookie_file)
                      \o save_cookies_to_file(cookie_jar)
    /\ pc' = IF pc \in Saved THEN "saved_again" ELSE "saved"
    /\ UNCHANGED cookie_jar
    /\ UNCHANGED engine_vars

\* a call of save_cookies_to_file(); pc tells a save that directly follows
\* a save from one that does not
SaveCookies ==
    /\ cookie_file' = save_cookies_to_file(cookie_jar)
    /\ pc' = IF pc \in Saved THEN "saved_again" ELSE "saved"
    /\ UNCHANGED cookie_jar
    /\ UNCHANGED engine_vars

\* a call of store_cookies(value, default_domain), which ends by saving
StoreCookies(value, default_domain) ==
    /\ cookie_jar' = store_cookies(cookie_jar, [islist |-> FALSE, val |-> value],
                                   default_domain)
    /\ cookie_file' = save_cookies_to_file(cookie_jar')
    /\ pc' = "stored"
    /\ UNCHANGED engine_vars

NextCookies ==
    \/ LoadCookies
    \/ SaveCookies
    \/ \E v \in SetCookieInputs, d \in DomainInputs : StoreCookies(v, d)

SpecFile == InitFile /\ [][NextCookies]_vars
SpecStore == InitStore /\ [][NextCookies]_vars

\* ------------------------------------------------------------------------
\* Properties
\* ------------------------------------------------------------------------
Ended == pc \in {"returned", "raised", "exited"}
IsAbsent(r) == r.kind = "returned" /\ r.status_line = None /\ r.headers = <<>> /\ r.body = "None"

\* C1: every unrecoverable failure of a call (connect timeout, name
\* resolution failure, connection refused, TLS error, malformed response,
\* redirect ceiling) ends make_request by returning (None, None, None); a
\* failure never leaves make_request as an exception.
C1_FailureReturnsAbsent ==
    /\ result.kind # "raised"
    /\ (Ended /\ result.error # "") => IsAbsent(result)

\* C2: a call performs at most max_redirects + 1 hops; redirect_count starts
\* at 0 and counts the followed redirects, one per hop that was followed;
\* when hop max_redirects + 1 answers with a followable redirect no further
\* hop is made and the call returns the absent result (TooManyRedirects), and
\* the ceiling is reported only then.
C2_RedirectCeiling ==
    pc # "idle" =>
        /\ hops <= max_redirects + 1
        /\ redirect_count \in 0..(max_redirects + 1)
        /\ pc \in {"while", "connect"} => hops = redirect_count
        /\ pc \in {"tls", "try", "parse"} => hops = redirect_count + 1
        /\ redirect_count = max_redirects + 1 =>
              /\ pc \in {"while", "returned", "exited"}
              /\ pc # "while" => result = Absent("TooManyRedirects")
        /\ result.error = "TooManyRedirects" =>
              IsAbsent(result) /\ hops = max_redirects + 1 /\ redirect_count = hops

C2_Witness ==
    /\ pc = "returned" /\ result = Absent("TooManyRedirects")
    /\ max_redirects >= 1 /\ hops = max_redirects + 1

\* C4: when make_request has ended, by a return or by an exception, no
\* connection it opened is still open; a followed redirect closes the hop's
\* connection before the next one is opened.
C4_NoConnectionLeftOpen ==
    /\ Ended => open_socks = 0
    /\ pc \in {"while", "connect"} => open_socks = 0

\* C10: no connection is attempted with an empty host: a URL without a
\* parseable host fails URL decomposition, on the first hop and on a redirect
\* hop.
C10_NoConnectWithoutHost ==
    hops > 0 => host # <<>>

\* the response of the current hop as the parser sees it
Parsed == _parse_response(response_bytes)
\* the hop's response has been processed and the call returned on this hop
ReturnedOnHop == pc = "returned" /\ response_bytes # NoResponse
RequestLine(m, p) == m \o <<" ">> \o p \o ReqHttp11

\* C3: a followed redirect sets the next hop's method and data by (status,
\* method): 303, and 301 or 302 after POST, give GET without data; every
\* other followed redirect carries method and data forward; and the request
\* put on the wire uses that method, with a body only for POST with data.
C3_RedirectRuleTable ==
    /\ [][(pc = "parse" /\ pc' = "while") =>
            LET code == StatusCode(response_bytes.head[1])
                downgrade == code = 303 \/ (code \in {301, 302} /\ method = POST)
            IN  /\ code \in {301, 302, 303, 307, 308}
                /\ downgrade => method' = GET /\ data' = None
                /\ ~downgrade => method' = method /\ data' = data]_vars
    /\ [](pc = "parse" =>
            /\ last_request.lines[1] = RequestLine(method, path)
            /\ last_request.body = IF method = POST /\ Truthy(data) THEN Utf8Encode(data) ELSE <<>>)

\* POST with body a=1, answered by 301 Location: /new, re-requested as GET /new
C3_Witness ==
    /\ pc = "parse" /\ redirect_count = 1 /\ status_code = 301
    /\ orig_method = POST /\ orig_data = DataA1
    /\ last_request.lines[1] = RequestLine(GET, <<"/","n","e","w">>)
    /\ last_request.body = <<>>
    /\ \A i \in 1..Len(last_request.lines) : ~StartsWith(last_request.lines[i], ContentLengthHdr)

HostInputs == {HostA, HostB}
PathInputs == {<<"/">>, <<"/","x">>}

\* C5: after a Set-Cookie value with first pair name=value has been stored
\* under domain D, get_cookies_for_url(h, p) includes name=value for every
\* host h that ends with D and every path p.
C5_CookieRoundTrip ==
    (ReturnedOnHop /\ Parsed.ok /\ DictHas(Parsed.headers, SetCookieKey)) =>
        LET parts == Split(DictGet(Parsed.headers, SetCookieKey), ";")
            name_value == Strip(parts[1])
            nv == SplitMax(name_value, "=", 1)
            D == CookieDomain(host, Tail(parts))
        IN  Find(name_value, "=") # 0 =>
                \A h \in HostInputs, p \in PathInputs :
                    EndsWith(h, D) =>
                        Includes(get_cookies_for_url(cookie_jar, h, p),
                                 Strip(nv[1]) \o <<"=">> \o Strip(nv[2]))

\* the header lines of the response that are Set-Cookie lines
IsSetCookieLine(line) ==
    Find(line, ":") # 0 /\ Lower(Strip(SplitMax(line, ":", 1)[1])) = SetCookieKey
JarHasName(jar, name) ==
    \E i \in 1..Len(jar) : DictHas(jar[i][2], name)

\* C6: every Set-Cookie line of a response reaches the jar: after the hop
\* each cookie named by a Set-Cookie line of the response is in the jar.
C6_EverySetCookieStored ==
    (ReturnedOnHop /\ Parsed.ok) =>
        \A i \in 2..Len(response_bytes.head) :
            LET line == response_bytes.head[i]
                name_value == Strip(Split(Strip(SplitMax(line, ":", 1)[2]), ";")[1])
            IN  (IsSetCookieLine(line) /\ Find(name_value, "=") # 0) =>
                    JarHasName(cookie_jar, Strip(SplitMax(name_value, "=", 1)[1]))

Encoding == HeaderGet(Parsed.headers, ContentEncoding)
DecompressFails ==
    \/ Encoding = Gzip /\ GzipDecompress(response_bytes.body) = ZlibError
    \/ /\ Encoding = Deflate
       /\ ZlibDecompress(response_bytes.body) = ZlibError
       /\ RawDecompress(response_bytes.body) = ZlibError

\* C7: a response that is returned keeps its status line and headers; its
\* body is the received bytes unchanged when the content-encoding is neither
\* gzip nor deflate, and when it is gzip or deflate and decompression fails;
\* a failed decompression never turns the result into the absent one.
C7_DecompressionNeverFatal ==
    (ReturnedOnHop /\ Parsed.ok /\ StatusCode(Parsed.status_line) # -1) =>
        /\ result.status_line = response_bytes.head[1]
        /\ result.headers = Parsed.headers
        /\ (Encoding \notin {Gzip, Deflate} \/ DecompressFails) =>
               result.body = response_bytes.body
        /\ ~IsAbsent(result)

C7_Witness ==
    /\ ReturnedOnHop /\ Parsed.ok /\ Encoding = Gzip /\ DecompressFails
    /\ response_bytes.body = "corrupt" /\ result.body = "corrupt"
    /\ result.status_line = Ok200

\* C8: a redirect status without a location header, with redirects allowed,
\* ends the call on that hop: the hop's status line, headers and body are
\* returned, redirect_count is not incremented and no connection is opened
\* afterwards.
C8_RedirectWithoutLocation ==
    /\ [][(pc = "parse" /\ Parsed.ok /\ allow_redirects
           /\ StatusCode(Parsed.status_line) \in {301, 302, 303, 307, 308}
           /\ ~DictHas(Parsed.headers, LocationKey)) =>
             /\ pc' = "returned"
             /\ result'.kind = "returned"
             /\ result'.status_line = response_bytes.head[1]
             /\ result'.headers = Parsed.headers
             /\ result'.body = _handle_compression(Parsed.headers, response_bytes.body)
             /\ redirect_count' = redirect_count
             /\ hops' = hops]_vars
    /\ [][Ended => (hops' = hops /\ open_socks' = open_socks
                     /\ redirect_count' = redirect_count)]_vars

C8_Witness ==
    /\ ReturnedOnHop /\ allow_redirects /\ status_code = 307
    /\ ~DictHas(Parsed.headers, LocationKey)
    /\ result.status_line = response_bytes.head[1]
    /\ redirect_count = 0 /\ hops = 1

\* the header map of a tolerant parser: lines without ':' are skipped
RECURSIVE TolerantHeaders(_, _)
TolerantHeaders(headers, lines) ==
    IF lines = <<>> THEN headers
    ELSE IF Find(Head(lines), ":") = 0 THEN TolerantHeaders(headers, Tail(lines))
    ELSE LET kv == SplitMax(Head(lines), ":", 1)
         IN  TolerantHeaders(DictSet(headers, Lower(Strip(kv[1])), Strip(kv[2])), Tail(lines))

\* C9: a header line without ':' is skipped: the response is still returned,
\* with the header map of the remaining lines.
C9_TolerantHeaderParsing ==
    (ReturnedOnHop /\ response_bytes.sep /\ StatusCode(response_bytes.head[1]) # -1) =>
        /\ result.status_line = response_bytes.head[1]
        /\ result.headers = TolerantHeaders(<<>>, Tail(response_bytes.head))

\* the jar of exactly the lines with three tab-separated fields
RECURSIVE ExactTriples(_, _)
ExactTriples(jar, lines) ==
    IF lines = <<>> THEN jar
    ELSE LET line == Head(lines)
             fields == Split(line, "\t")
         IN  ExactTriples(IF line # <<>> /\ ~StartsWith(line, <<"#">>) /\ Len(fields) = 3
                          THEN JarSet(jar, fields[1], fields[2], fields[3]) ELSE jar,
                          Tail(lines))

\* C11: after load_cookies_from_file the jar holds exactly the (domain, name,
\* value) triples of the non-empty, non-comment lines of the file that have
\* exactly 3 tab-separated fields, every other line being skipped, and a
\* missing file gives the empty jar.
C11_LoadExactlyThreeFields ==
    pc = "loaded" =>
        cookie_jar = IF cookie_file = NoFile THEN <<>> ELSE ExactTriples(<<>>, cookie_file)

\* C12: a save that directly follows a save leaves the file as the first
\* save wrote it, and no save changes the jar.
C12_SaveIdempotent ==
    [][(pc' \in Saved) =>
          /\ cookie_jar' = cookie_jar
          /\ (pc \in Saved => cookie_file' = cookie_file)]_vars

C12_Witness ==
    /\ pc = "saved_again" /\ cookie_jar # <<>>
    /\ cookie_file = <<FileHeader1, FileHeader2>> \o JarLines(cookie_jar)
    /\ Len(cookie_file) >= 4

TransportErrors ==
    {"socket.timeout", "socket.gaierror", "ConnectionRefusedError", "ssl.SSLError", "OSError",
     "Exception"}
\* a step on which connecting, the TLS set-up, sending or receiving failed
TransportFailureStep ==
    \/ pc = "connect" /\ hops' = hops + 1 /\ pc' \notin {"tls", "try"}
    \/ pc = "tls" /\ pc' # "try"
    \/ pc = "try" /\ pc' # "parse"

\* C13: a hop on which the transport fails ends the call on that step, with
\* the failure as the call's outcome; after it no connection is opened, the
\* loop is not entered again and the outcome stays; the cli reports it by
\* exit status 1.
C13_TransportFailureTerminal ==
    /\ [][TransportFailureStep =>
            /\ pc' \in {"returned", "raised"}
            /\ result'.error \in TransportErrors
            /\ redirect_count' = redirect_count]_vars
    /\ [][(Ended /\ result.error \in TransportErrors) =>
            /\ pc' = "exited" /\ exit_status' = 1
            /\ result' = result /\ hops' = hops /\ open_socks' = open_socks]_vars

\* a timeout on the hop that followed a redirect
C13_Witness ==
    /\ pc = "returned" /\ result = Absent("socket.timeout")
    /\ redirect_count = 1 /\ hops = 2

HasLine(line) == \E i \in 1..Len(last_request.lines) : last_request.lines[i] = line
ContentLengthLines ==
    {i \in 1..Len(last_request.lines) : StartsWith(last_request.lines[i], ContentLengthHdr)}
\* the number of bytes of data encoded as UTF-8
RECURSIVE ByteLength(_)
ByteLength(d) ==
    IF d = <<>> THEN 0 ELSE (IF Head(d) \in TwoByteChars THEN 2 ELSE 1) + ByteLength(Tail(d))

\* C14: on every hop the request carries the form Content-Type, one
\* Content-Length and a non-empty body exactly when the hop's method is POST
\* and its data is non-empty, and then Content-Length is the number of bytes
\* of the body, which is the data encoded; a GET request has no body and no
\* Content-Length, in particular after a redirect changed POST to GET.
C14_BodyOnlyOnPostWithData ==
    pc = "parse" =>
        /\ HasLine(ContentTypeLine) <=> (method = POST /\ Truthy(data))
        /\ (ContentLengthLines # {}) <=> (method = POST /\ Truthy(data))
        /\ (last_request.body # <<>>) <=> (method = POST /\ Truthy(data))
        /\ (method = POST /\ Truthy(data)) =>
              /\ Cardinality(ContentLengthLines) = 1
              /\ \A i \in ContentLengthLines :
                    last_request.lines[i] = ContentLengthHdr \o IntToStr(ByteLength(data))
              /\ Len(last_request.body) = ByteLength(data)
              /\ last_request.body = Utf8Encode(data)
        /\ method = GET => last_request.body = <<>> /\ ContentLengthLines = {}

\* POST of a two-byte character carried over a 307 redirect
C14_Witness ==
    /\ pc = "parse" /\ redirect_count = 1 /\ status_code = 307
    /\ method = POST /\ data = DataUtf8
    /\ HasLine(ContentLengthHdr \o <<"4">>)
    /\ Len(last_request.body) = 4

\* C15: with allow_redirects false a response with status 301, 302, 303, 307
\* or 308 is returned as it is, with or without a location header: the hop's
\* status line, headers and decoded body are the result, and the call makes
\* one hop only.
C15_RedirectsDisabled ==
    /\ [][(pc = "parse" /\ ~allow_redirects /\ Parsed.ok
           /\ StatusCode(Parsed.status_line) \in {301, 302, 303, 307, 308}) =>
             /\ pc' = "returned"
             /\ result' = [kind |-> "returned", error |-> "",
                           status_line |-> response_bytes.head[1],
                           headers |-> Parsed.headers,
                           body |-> _handle_compression(Parsed.headers, response_bytes.body)]
             /\ hops' = 1 /\ redirect_count' = 0]_vars
    /\ []((pc # "idle" /\ ~allow_redirects) => (hops <= 1 /\ redirect_count = 0))

\* a 302 with a location header returned to a caller that disabled redirects
C15_Witness ==
    /\ pc = "returned" /\ ~allow_redirects /\ status_code = 302
    /\ DictHas(result.headers, LocationKey)
    /\ result.status_line = Found302
    /\ hops = 1 /\ redirect_count = 0

InCall == pc \in {"while", "connect", "tls", "try", "parse"}

\* C16: every call ends, whatever the server answers, redirect cycles
\* included: each followed redirect increments redirect_count, and the loop
\* test reached with redirect_count above max_redirects ends the call with
\* TooManyRedirects.
C16_RedirectLoopTerminates ==
    /\ InCall ~> Ended
    /\ [][(pc = "parse" /\ pc' = "while") => redirect_count' = redirect_count + 1]_vars
    /\ [][(pc = "while" /\ redirect_count > max_redirects) =>
            (pc' = "returned" /\ result' = Absent("TooManyRedirects"))]_vars
    /\ [][(pc = "while" /\ redirect_count <= max_redirects) => pc' = "connect"]_vars

\* the cycle a.io -> b.a.io -> a.io cut by the ceiling max_redirects = 1
C16_Witness ==
    /\ pc = "returned" /\ result = Absent("TooManyRedirects")
    /\ max_redirects = 1 /\ redirect_count = 2 /\ hops = 2
    /\ current_url = UrlA /\ host = HostB

\* the first pair of a Set-Cookie value, as name=value with both parts trimmed
FirstPair(v) == Strip(Split(v, ";")[1])
PairText(nv) == Strip(SplitMax(nv, "=", 1)[1]) \o <<"=">> \o Strip(SplitMax(nv, "=", 1)[2])
StoredDomain(v, default_domain) == CookieDomain(default_domain, Tail(Split(v, ";")))
CookieLines ==
    {i \in 1..Len(last_request.lines) : StartsWith(last_request.lines[i], CookieHdr)}

\* C17: the cookie of a followed redirect response is in the jar and in the
\* file when the step ends, the jar is not touched until the next request is
\* built, and that request's Cookie line is what the jar yields for the hop's
\* host (no line when it yields nothing); so the next request carries the
\* cookie whenever the next hop's host ends with the cookie's stored domain.
C17_CookieWriteBeforeNextRead ==
    /\ [][(pc = "parse" /\ pc' = "while" /\ DictHas(Parsed.headers, SetCookieKey)
           /\ Find(FirstPair(DictGet(Parsed.headers, SetCookieKey)), "=") # 0) =>
            /\ cookie_file' = save_cookies_to_file(cookie_jar')
            /\ EndsWith(parse_url(current_url').host,
                        StoredDomain(DictGet(Parsed.headers, SetCookieKey), host)) =>
                  Includes(get_cookies_for_url(cookie_jar', parse_url(current_url').host,
                                               parse_url(current_url').path),
                           PairText(FirstPair(DictGet(Parsed.headers, SetCookieKey))))]_vars
    /\ [][(pc \in {"while", "connect", "tls", "try"}) =>
            (cookie_jar' = cookie_jar /\ cookie_file' = cookie_file)]_vars
    /\ [](pc = "parse" =>
            /\ (CookieLines # {}) <=> (get_cookies_for_url(cookie_jar, host, path) # <<>>)
            /\ \A i \in CookieLines :
                  last_request.lines[i] = CookieHdr \o get_cookies_for_url(cookie_jar, host, path))

\* C18: after any sequence of store_cookies calls that started from the empty
\* jar, loading the file written by the last store gives the jar back: same
\* domains, names and values.
C18_PersistReloadRoundTrip ==
    pc = "stored" => load_cookies_from_file(cookie_file) = cookie_jar

\* C19 as claimed: a call that returns the absent result leaves the jar and
\* the file as they were before the call (a direct call starts from the
\* empty jar and the file the program started with).
C19_FailedCallLeavesStore ==
    /\ [][(pc = "parse" /\ IsAbsent(result')) =>
            (cookie_jar' = cookie_jar /\ cookie_file' = cookie_file)]_vars
    /\ []((caller = "api" /\ pc = "returned" /\ IsAbsent(result)) =>
            (cookie_jar = <<>> /\ cookie_file \in InitFiles))

\* C19 as amended: within a call the jar and the file change only in the
\* cookie step of a hop whose response was parsed and has a set-cookie
\* header, by store_cookies of that header for the hop's host followed by the
\* save; connecting, sending, receiving, the failure returns and the ceiling
\* return change neither, and what earlier hops stored stays.
C19_StoreChangesOnlyInCookieStep ==
    /\ [][(pc # "idle" /\ (cookie_jar' # cookie_jar \/ cookie_file' # cookie_file)) =>
            (pc = "parse" /\ Parsed.ok /\ DictHas(Parsed.headers, SetCookieKey))]_vars
    /\ [][(pc = "parse" /\ Parsed.ok /\ DictHas(Parsed.headers, SetCookieKey)) =>
            /\ cookie_jar' = store_cookies(cookie_jar,
                                           [islist |-> FALSE,
                                            val |-> DictGet(Parsed.headers, SetCookieKey)],
                                           host)
            /\ cookie_file' = save_cookies_to_file(cookie_jar')]_vars
    /\ [][(pc = "parse" /\ ~(Parsed.ok /\ DictHas(Parsed.headers, SetCookieKey))) =>
            (cookie_jar' = cookie_jar /\ cookie_file' = cookie_file)]_vars

\* the ceiling return after a redirect hop whose cookie was stored
C19_Witness ==
    /\ pc = "returned" /\ result = Absent("TooManyRedirects") /\ caller = "api"
    /\ cookie_jar # <<>> /\ cookie_file = save_cookies_to_file(cookie_jar)

\* C20: from the entry of make_request on, the method is the caller's method
\* or GET and the data is the caller's data or absent; a step never takes the
\* method away from GET and never brings discarded data back.
C20_MethodDataOnlyDowngrade ==
    /\ [](pc # "idle" => (method \in {orig_method, GET} /\ data \in {orig_data, None}))
    /\ [][(pc # "idle" /\ method = GET) => method' = GET]_vars
    /\ [][(pc # "idle" /\ data = None) => data' = None]_vars

\* a POST with data downgraded on the first redirect and redirected again
C20_Witness ==
    /\ orig_method = POST /\ orig_data # None
    /\ method = GET /\ data = None
    /\ redirect_count = 2

====
